---- MODULE Spec2Model ----
(***************************************************************************)
(* A model of g2b_lead_miner.py: the notice ingestion-and-scoring pipeline *)
(* (window planner, retrying fetcher, normalizer, deduplicator,            *)
(* classifier, recurrence detector, urgency scorer, lead ranker).          *)
(*                                                                         *)
(* Text is a sequence of characters.  A character is a one-letter string   *)
(* for ASCII and the romanised syllable for a Hangul syllable, so 교육 is   *)
(* <<"gyo", "yuk">>: equal syllables are equal strings, different          *)
(* syllables are different strings, and substring search is done on the    *)
(* character sequence as re.search does it.                                *)
(***************************************************************************)
EXTENDS Integers, Sequences, FiniteSets, TLC

VARIABLES
    title,        \* classifier: the title being composed / classified
    classified,   \* classifier: <<>> or <<result of match_category(title)>>
    now,          \* scorer: the clock datetime.now() reads (minutes)
    calls,        \* scorer: the urgency_score calls made so far
    wStart,       \* planner: iter_windows' start argument
    wEnd,         \* planner: iter_windows' end argument
    wMode,        \* planner: iter_windows' mode argument
    cursor,       \* planner: the generator's cursor
    windows,      \* planner: the windows yielded so far
    wDone,        \* planner: the generator is exhausted
    batch,        \* ranker: the notice list handed to dedupe/build_leads
    top_n,        \* ranker: build_leads' top_n argument
    out,          \* ranker: <<>> or <<result of the last operation>>
    pc,           \* run: where run_pipeline stands
    page_no,      \* run: fetch_notices_std's page_no
    attempt,      \* run: request_json's attempt
    last_error,   \* run: request_json's last_error
    nReq,         \* run: requests issued by the request_json call under way
    sleeps,       \* run: the sleeps of the request_json call under way
    resp,         \* run: <<>> or <<what the last request got>>
    pageLog,      \* run: the request_json calls made: window, pageNo
    failure,      \* run: <<>> or <<the exception that ended the run>>
    files         \* run: the export files written

classifyVars == <<title, classified>>

scoreVars == <<now, calls>>

windowVars == <<wStart, wEnd, wMode, cursor, windows, wDone>>

leadVars == <<batch, top_n, out>>

runVars == <<pc, page_no, attempt, last_error, nReq, sleeps, resp, pageLog, failure,
             files>>

vars == <<classifyVars, scoreVars, windowVars, leadVars, runVars>>

(***************************************************************************)
(* Optional values: None is the empty tuple, a present value v is <<v>>.   *)
(***************************************************************************)
None == <<>>

Some(v) == <<v>>

Max(a, b) == IF a >= b THEN a ELSE b

Min(a, b) == IF a <= b THEN a ELSE b

(***************************************************************************)
(* Characters and regular-expression search (re.search with re.IGNORECASE) *)
(***************************************************************************)
Whitespace == {" ", "\t"}

Digits == {"0", "1", "2", "3", "4", "5", "6", "7", "8", "9"}

\* Characters that are not \w (everything else of the alphabet is a letter,
\* a digit or a Hangul syllable, all of which are \w).
NonWord == Whitespace \cup {"(", ")", "-", ",", "/"}

\* str.lower() / case folding on the characters of the alphabet.
LowerChar(c) ==
    CASE c = "H" -> "h"
      [] c = "R" -> "r"
      [] c = "D" -> "d"
      [] c = "O" -> "o"
      [] OTHER -> c

\* A pattern is a literal with an optional \b on both sides.
Lit(s) == [lit |-> s, wb |-> FALSE]

Word(s) == [lit |-> s, wb |-> TRUE]

\* The pattern matches txt at position i (1-based), ignoring case.
MatchAt(pat, txt, i) ==
    LET n == Len(pat.lit) IN
    /\ i >= 1
    /\ i + n - 1 <= Len(txt)
    /\ \A k \in 1..n : LowerChar(txt[i + k - 1]) = LowerChar(pat.lit[k])
    /\ pat.wb => /\ (i = 1 \/ txt[i - 1] \in NonWord)
                 /\ (i + n - 1 = Len(txt) \/ txt[i + n] \in NonWord)

\* re.search(pat, txt, re.IGNORECASE) is not None
Search(pat, txt) == \E i \in 1..Len(txt) : MatchAt(pat, txt, i)

\* re.search("p1|p2|...", txt, re.IGNORECASE) is not None
SearchAny(pats, txt) == \E j \in 1..Len(pats) : Search(pats[j], txt)

RECURSIVE LStrip(_)
LStrip(s) ==
    IF s # <<>> /\ Head(s) \in Whitespace THEN LStrip(Tail(s)) ELSE s

RECURSIVE RStrip(_)
RStrip(s) ==
    IF s # <<>> /\ s[Len(s)] \in Whitespace
    THEN RStrip(SubSeq(s, 1, Len(s) - 1))
    ELSE s

\* str.strip()
Strip(s) == RStrip(LStrip(s))

(***************************************************************************)
(* The keyword vocabulary                                                  *)
(***************************************************************************)
INCLUDE_PATTERNS ==
    << Lit(<<"H", "R", "D">>),                        \* HRD
       Lit(<<"gyo", "yuk">>),                         \* 교육
       Lit(<<"yeon", "su">>),                         \* 연수
       Lit(<<"hun", "ryeon">>),                       \* 훈련
       Lit(<<"gang", "sa">>),                         \* 강사
       Lit(<<"wo", "keu", "syop">>),                  \* 워크숍
       Lit(<<"se", "mi", "na">>),                     \* 세미나
       Lit(<<"ko", "ching">>),                        \* 코칭
       Lit(<<"ri", "deo", "sip">>),                   \* 리더십
       Lit(<<"jik", "mu", "yeok", "ryang">>),         \* 직무역량
       Lit(<<"yeok", "ryang">>),                      \* 역량
       Lit(<<"jo", "jik", "jin", "dan">>),            \* 조직진단
       Lit(<<"jo", "jik", "mun", "hwa">>),            \* 조직문화
       Word(<<"O", "D">>),                            \* \bOD\b
       Lit(<<"seong", "gwa", "pyeong", "ga">>),       \* 성과평가
       Lit(<<"pyeong", "ga", "je", "do">>),           \* 평가제도
       Lit(<<"in", "sa", "je", "do">>),               \* 인사제도
       Lit(<<"keon", "seol", "ting">>) >>             \* 컨설팅

EXCLUDE_PATTERNS ==
    << Lit(<<"si", "seol">>),                         \* 시설
       Lit(<<"so", "bang">>),                         \* 소방
       Lit(<<"jeon", "gi">>),                         \* 전기
       Lit(<<"cheong", "so">>),                       \* 청소
       Lit(<<"geup", "sik">>),                        \* 급식
       Lit(<<"an", "jeon", "jeom", "geom">>),         \* 안전점검
       Lit(<<"jo", "gyeong">>),                       \* 조경
       Lit(<<"do", "ro">>) >>                         \* 도로

\* r"조직진단|조직문화|\bOD\b|변화관리"
OD_TERMS ==
    << Lit(<<"jo", "jik", "jin", "dan">>),
       Lit(<<"jo", "jik", "mun", "hwa">>),
       Word(<<"O", "D">>),
       Lit(<<"byeon", "hwa", "gwan", "ri">>) >>

\* r"평가|성과|역량모델|직무체계|인사제도"
EVAL_TERMS ==
    << Lit(<<"pyeong", "ga">>),
       Lit(<<"seong", "gwa">>),
       Lit(<<"yeok", "ryang", "mo", "del">>),
       Lit(<<"jik", "mu", "che", "gye">>),
       Lit(<<"in", "sa", "je", "do">>) >>

\* The category labels: "미지정", "비대상", "보류(노이즈 가능)", "OD/조직",
\* "평가/제도", "HRD/교육".
CAT_UNASSIGNED == "mijijeong"

CAT_NOT_TARGET == "bidaesang"

CAT_HOLD == "boryu(noise ganeung)"

CAT_OD == "OD/jojik"

CAT_EVAL == "pyeongga/jedo"

CAT_HRD == "HRD/gyoyuk"

\* The categories build_leads skips.
NON_LEAD_CATEGORIES == {CAT_NOT_TARGET, CAT_HOLD, CAT_UNASSIGNED}

(***************************************************************************)
(* match_category: (category, strength in hundredths, include hits)        *)
(***************************************************************************)
include_hits(txt) ==
    LET hit(pat) == Search(pat, txt) IN SelectSeq(INCLUDE_PATTERNS, hit)

exclude_hits(txt) ==
    LET hit(pat) == Search(pat, txt) IN SelectSeq(EXCLUDE_PATTERNS, hit)

Result(c, s, h) == [category |-> c, strength |-> s, hits |-> h]

\* match_category with the hold test made strict: a title that hits as many
\* include as exclude patterns is no longer held.
match_category_strict(t) ==
    LET txt == Strip(t)
        inc == include_hits(txt)
        exc == exclude_hits(txt)
    IN  IF txt = <<>> THEN Result(CAT_UNASSIGNED, 0, <<>>)
        ELSE IF inc = <<>> THEN Result(CAT_NOT_TARGET, 0, <<>>)
        ELSE IF exc # <<>> /\ Len(inc) < Len(exc) THEN Result(CAT_HOLD, 45, inc)
        ELSE IF SearchAny(OD_TERMS, txt) THEN Result(CAT_OD, 84, inc)
        ELSE IF SearchAny(EVAL_TERMS, txt) THEN Result(CAT_EVAL, 78, inc)
        ELSE Result(CAT_HRD, 72, inc)

match_category(t) ==
    LET txt == Strip(t)
        inc == include_hits(txt)
        exc == exclude_hits(txt)
    IN  IF txt = <<>> THEN Result(CAT_UNASSIGNED, 0, <<>>)
        ELSE IF inc = <<>> THEN Result(CAT_NOT_TARGET, 0, <<>>)
        ELSE IF exc # <<>> /\ Len(inc) <= Len(exc) THEN Result(CAT_HOLD, 45, inc)
        ELSE IF SearchAny(OD_TERMS, txt) THEN Result(CAT_OD, 84, inc)
        ELSE IF SearchAny(EVAL_TERMS, txt) THEN Result(CAT_EVAL, 78, inc)
        ELSE Result(CAT_HRD, 72, inc)

(***************************************************************************)
(* The classifier on its own: a title is composed word by word and         *)
(* match_category is applied to it.                                        *)
(***************************************************************************)
MaxTitleLen == 8

\* The words titles are composed of.
Vocabulary ==
    { <<" ">>,
      <<"gyo", "yuk">>,                       \* 교육   (include)
      <<"jik", "mu", "yeok", "ryang">>,       \* 직무역량 (include twice: 직무역량, 역량)
      <<"jo", "jik", "mun", "hwa">>,          \* 조직문화 (include, OD term)
      <<"seong", "gwa", "pyeong", "ga">>,     \* 성과평가 (include, evaluation term)
      <<"byeon", "hwa", "gwan", "ri">>,       \* 변화관리 (OD term, no include)
      <<"pyeong", "ga">>,                     \* 평가   (evaluation term, no include)
      <<"o", "d">>,                           \* od    (\bOD\b when it stands alone)
      <<"H", "R", "D">>,                      \* HRD   (include)
      <<"si", "seol">>,                       \* 시설   (exclude)
      <<"jeon", "gi">>,                       \* 전기   (exclude)
      <<"yong", "yeok">> }                    \* 용역   (neutral)

ClassifyInit ==
    /\ title = <<>>
    /\ classified = None

AppendWord ==
    \E w \in Vocabulary :
        /\ Len(title) + Len(w) <= MaxTitleLen
        /\ title' = title \o w
        /\ classified' = None
        /\ UNCHANGED <<scoreVars, windowVars, leadVars, runVars>>

Classify ==
    /\ classified = None
    /\ classified' = Some(match_category(title))
    /\ UNCHANGED <<title, scoreVars, windowVars, leadVars, runVars>>

(***************************************************************************)
(* datetime: an instant is the number of minutes since 2023-01-01 00:00,   *)
(* a timedelta a number of minutes.  The proleptic Gregorian calendar of   *)
(* the datetime module.                                                    *)
(***************************************************************************)
MINUTES_PER_DAY == 24 * 60

IsLeap(y) == (y % 4 = 0) /\ ((y % 100 # 0) \/ (y % 400 = 0))

DaysInYear(y) == IF IsLeap(y) THEN 366 ELSE 365

DaysInMonth(y, m) ==
    IF m = 2 THEN (IF IsLeap(y) THEN 29 ELSE 28)
    ELSE IF m \in {4, 6, 9, 11} THEN 30
    ELSE 31

RECURSIVE DaysBeforeYear(_)
DaysBeforeYear(y) ==
    IF y <= 2023 THEN 0 ELSE DaysBeforeYear(y - 1) + DaysInYear(y - 1)

RECURSIVE DaysBeforeMonth(_, _)
DaysBeforeMonth(y, m) ==
    IF m <= 1 THEN 0 ELSE DaysBeforeMonth(y, m - 1) + DaysInMonth(y, m - 1)

\* datetime(y, m, d, hh, mm)
datetime(y, m, d, hh, mm) ==
    (DaysBeforeYear(y) + DaysBeforeMonth(y, m) + (d - 1)) * MINUTES_PER_DAY
        + hh * 60 + mm

RECURSIVE YearFrom(_, _)
YearFrom(y, days) ==
    IF days < DaysInYear(y) THEN y ELSE YearFrom(y + 1, days - DaysInYear(y))

RECURSIVE MonthFrom(_, _, _)
MonthFrom(y, m, days) ==
    IF days < DaysInMonth(y, m) THEN m
    ELSE MonthFrom(y, m + 1, days - DaysInMonth(y, m))

\* t.year
YearOf(t) == YearFrom(2023, t \div MINUTES_PER_DAY)

\* t.month
MonthOf(t) ==
    LET y == YearOf(t)
    IN  MonthFrom(y, 1, (t \div MINUTES_PER_DAY) - DaysBeforeYear(y))

\* timedelta(days = n), timedelta(minutes = n)
timedelta_days(n) == n * MINUTES_PER_DAY

timedelta_minutes(n) == n

(***************************************************************************)
(* iter_windows: one step of the generator.  From the cursor it computes   *)
(* the window it yields and the cursor it resumes with.                    *)
(***************************************************************************)
NextCursor(c, mode) ==
    IF mode = "monthly"
    THEN IF MonthOf(c) = 12
         THEN datetime(YearOf(c) + 1, 1, 1, 0, 0)
         ELSE datetime(YearOf(c), MonthOf(c) + 1, 1, 0, 0)
    ELSE c + timedelta_days(1)

\* The window end without the clip to the overall end.
WindowEndUnclipped(c, end, mode) == NextCursor(c, mode) - timedelta_minutes(1)

WindowEnd(c, end, mode) == Min(end, NextCursor(c, mode) - timedelta_minutes(1))

\* while cursor <= end
HasWindow(c, end) == c <= end

Window(c, end, mode) == [ws |-> c, we |-> WindowEnd(c, end, mode)]

(***************************************************************************)
(* The planner on its own: iter_windows is driven to exhaustion for a      *)
(* start, an end no earlier than it, and a mode.                           *)
(***************************************************************************)
MaxSpanDays == 32

\* Start instants just before the calendar's irregular places.
StartInstants ==
    { datetime(2023, 2, 27, 23, 59),    \* February of a common year
      datetime(2023, 11, 30, 23, 59),   \* a 30-day month, then December -> January
      datetime(2023, 12, 30, 0, 0),     \* the year's end
      datetime(2024, 2, 27, 12, 30),    \* February of a leap year
      datetime(2024, 4, 30, 0, 1) }     \* the last day of a 30-day month

MinuteOffsets == {0, 1, MINUTES_PER_DAY - 1}

Modes == {"daily", "monthly"}

WindowInit ==
    /\ wStart \in StartInstants
    /\ \E d \in 0..MaxSpanDays, m \in MinuteOffsets :
           wEnd = wStart + timedelta_days(d) + timedelta_minutes(m)
    /\ wMode \in Modes
    /\ cursor = wStart
    /\ windows = <<>>
    /\ wDone = FALSE

\* The loop body: yield cursor, window_end; cursor = nxt
Yield ==
    /\ ~wDone
    /\ HasWindow(cursor, wEnd)
    /\ windows' = Append(windows, Window(cursor, wEnd, wMode))
    /\ cursor' = NextCursor(cursor, wMode)
    /\ UNCHANGED <<wStart, wEnd, wMode, wDone>>
    /\ UNCHANGED <<classifyVars, scoreVars, leadVars, runVars>>

\* The loop condition fails: the generator is exhausted.
Exhaust ==
    /\ ~wDone
    /\ ~HasWindow(cursor, wEnd)
    /\ wDone' = TRUE
    /\ UNCHANGED <<wStart, wEnd, wMode, cursor, windows>>
    /\ UNCHANGED <<classifyVars, scoreVars, leadVars, runVars>>

(***************************************************************************)
(* urgency_score.  Scores are computed in millionths: a component score    *)
(* s in [0, 1] is the integer 10^6 * s (truncated), a weight w likewise,   *)
(* and the weighted sum 100 * (0.35 d + 0.25 b + 0.15 a + 0.15 r + 0.10 f) *)
(* is 35 d + 25 b + 15 a + 15 r + 10 f millionths of a point.              *)
(***************************************************************************)
ONE == 1000000

HALF == 500000

\* math.log10(x) in millionths, for the amounts the model uses.
log10(x) ==
    CASE x = 2 -> 301029
      [] x = 10 -> 1000000
      [] x = 100 -> 2000000
      [] x = 1000001 -> 6000000
      [] x = 300000001 -> 8477121
      [] x = 500000001 -> 8698970
      [] x = 1000000000 -> 9000000
      [] x = 2000000001 -> 9301029

\* max((deadline_dt - datetime.now()).days, 0)
days_left(deadline) == Max((deadline - now) \div MINUTES_PER_DAY, 0)

deadline_score(deadline_dt) ==
    IF deadline_dt = None THEN HALF
    ELSE (7 * ONE) \div (7 + days_left(deadline_dt[1]))

budget_score(budget_amt) ==
    IF budget_amt # None /\ budget_amt[1] # 0 /\ budget_amt[1] > 0
    THEN Min(ONE, log10(budget_amt[1] + 1) \div 9)
    ELSE HALF

\* The repeat flag left out of the score.
repeat_score_dropped(repeat) == 0

repeat_score(repeat) == IF repeat THEN ONE ELSE 0

\* round(): to the nearest integer, halves to the even one.  The sum is
\* exact here; the program's floating-point sum may fall a hair to either
\* side of an exact half (74.5) and round(...) then gives either neighbour.
Round(x) ==
    LET q == x \div ONE
        r == x % ONE
    IN  IF r > HALF THEN q + 1
        ELSE IF r < HALF THEN q
        ELSE IF q % 2 = 0 THEN q ELSE q + 1

weighted_sum(deadline_dt, budget_amt, repeat, agency_weight, fit_weight) ==
    35 * deadline_score(deadline_dt)
        + 25 * budget_score(budget_amt)
        + 15 * agency_weight
        + 15 * repeat_score(repeat)
        + 10 * fit_weight

urgency_score(deadline_dt, budget_amt, repeat, agency_weight, fit_weight) ==
    Round(Max(0, Min(100 * ONE,
        weighted_sum(deadline_dt, budget_amt, repeat, agency_weight, fit_weight))))

\* The default weights: agency_weight = 0.6, fit_weight = 0.8
AGENCY_WEIGHT == 600000

FIT_WEIGHT == 800000

(***************************************************************************)
(* The scorer on its own: two successive urgency_score calls, as in        *)
(* ScoringTests.test_score_range, under one reading of the clock.          *)
(***************************************************************************)
\* 2026-01-15 10:00 and 2026-01-15 23:59
Clocks == {datetime(2026, 1, 15, 10, 0), datetime(2026, 1, 15, 23, 59)}

\* Deadlines as offsets from 2026-01-15 10:00: past, the same day, and
\* one, seven and thirty days ahead.
DeadlineInputs ==
    {None} \cup
    { Some(datetime(2026, 1, 15, 10, 0) + d) :
        d \in { 0 - timedelta_days(3), 600, timedelta_days(1),
                timedelta_days(7), timedelta_days(30) } }

BudgetInputs ==
    {None, Some(0), Some(1), Some(1000000), Some(500000000),
     Some(999999999), Some(2000000000)}

\* (agency_weight, fit_weight): the defaults, weights above 1, negative weights
WeightInputs ==
    { <<AGENCY_WEIGHT, FIT_WEIGHT>>, <<2 * ONE, 5 * ONE>>, <<0 - 5 * ONE, 0 - 5 * ONE>> }

Call(d, b, r, w) ==
    [deadline_dt |-> d, budget_amt |-> b, repeat |-> r,
     agency_weight |-> w[1], fit_weight |-> w[2],
     score |-> urgency_score(d, b, r, w[1], w[2])]

ScoreInit ==
    /\ now \in Clocks
    /\ calls = <<>>

ScoreCall(k) ==
    /\ Len(calls) = k
    /\ \E d \in DeadlineInputs, b \in BudgetInputs, r \in BOOLEAN, w \in WeightInputs :
           calls' = Append(calls, Call(d, b, r, w))
    /\ UNCHANGED <<now, classifyVars, windowVars, leadVars, runVars>>

\* high = urgency_score(...)
ScoreFirst == ScoreCall(0)

\* low = urgency_score(...)
ScoreSecond == ScoreCall(1)

(***************************************************************************)
(* RawNotice, the normalizer and the deduplicator                          *)
(***************************************************************************)
\* A timestamp text is the instant it spells and the format it spells it in:
\* "minute-dashed" (YYYY-MM-DD HH:MM), "minute-compact" (YYYYMMDDHHMM),
\* "date-dashed" (YYYY-MM-DD, which spells the day only), "other" (a text
\* no format matches) or "empty" (the empty string).
TimeText(fmt, t) == [fmt |-> fmt, at |-> t]

EmptyText == TimeText("empty", 0)

\* The sentinel "미지정"
UNASSIGNED == <<"mi", "ji", "jeong">>

\* x or y, for optional texts: an absent or empty x is falsy.
Truthy(x) == x # None /\ x[1] # <<>>

OrElse(x, y) == IF Truthy(x) THEN x ELSE y

\* str(a or b or default), for optional texts a, b and a text default
FirstText(a, b, default) == OrElse(OrElse(a, b), Some(default))[1]

normalize_bid_key(item) ==
    << Strip(FirstText(item.bidNtceNo, item.bid_ntce_no, <<>>)),
       Strip(FirstText(item.bidNtceOrd, item.bid_ntce_ord, <<"0">>)) >>

\* A budget field of an item is absent (None) or Some of: <<"num", n>> (the
\* digits of n, with or without thousands separators), <<"empty">> (""),
\* <<"dash">> ("-") or <<"junk">> (a text float() rejects).
RECURSIVE ParseBudgetFrom(_)
ParseBudgetFrom(raws) ==
    IF raws = <<>> THEN None
    ELSE IF Head(raws) = None \/ Head(raws)[1][1] \in {"empty", "dash", "junk"}
         THEN ParseBudgetFrom(Tail(raws))
    ELSE Some(Head(raws)[1][2])

_parse_budget(item) ==
    ParseBudgetFrom(<<item.asignBdgtAmt, item.presmptPrce, item.budgetAmt>>)

\* The detail-page URL, by its query parameters (quote() leaves the digits
\* of an identifier as they are); the sentinel when there is no identifier.
build_notice_url(bid_no, bid_ord) ==
    IF bid_no = <<>> THEN [unassigned |-> TRUE]
    ELSE [unassigned |-> FALSE, bidNtceNo |-> bid_no,
          bidNtceOrd |-> IF bid_ord = <<>> THEN <<"0">> ELSE bid_ord]

TextOr(t, default) == IF t = <<>> THEN default ELSE t

\* The RawNotice fetch_notices_std builds from one item of a page
\* (notice_date, which nothing downstream reads, is left out).
NormalizeItem(item) ==
    LET key == normalize_bid_key(item)
        bid_no == key[1]
        bid_ord == key[2]
    IN  [ bid_ntce_no |-> TextOr(bid_no, UNASSIGNED),
          bid_ntce_ord |-> TextOr(bid_ord, <<"0">>),
          notice_title |-> TextOr(FirstText(item.bidNtceNm, item.bid_ntce_nm, <<>>), UNASSIGNED),
          work_type |-> FirstText(item.bsnsDivNm, item.workType, UNASSIGNED),
          agency_name |-> FirstText(item.dminsttNm, item.ntceInsttNm, UNASSIGNED),
          deadline_dt |-> IF item.bidClseDt = None THEN EmptyText ELSE item.bidClseDt[1],
          budget_amt |-> _parse_budget(item),
          source_url |-> build_notice_url(bid_no, bid_ord) ]

NoticeKey(notice) == <<notice.bid_ntce_no, notice.bid_ntce_ord>>

\* A dict that keeps the first value of a key (setdefault in place of
\* assignment).
DictPutKeepFirst(deduped, notice) ==
    IF \E i \in 1..Len(deduped) : NoticeKey(deduped[i]) = NoticeKey(notice)
    THEN deduped
    ELSE Append(deduped, notice)

\* deduped[key] = notice, on a dict kept as the list of its values in
\* insertion order: a key already present keeps its place and takes the
\* new value, a new key goes last.
DictPut(deduped, notice) ==
    IF \E i \in 1..Len(deduped) : NoticeKey(deduped[i]) = NoticeKey(notice)
    THEN [i \in 1..Len(deduped) |->
             IF NoticeKey(deduped[i]) = NoticeKey(notice) THEN notice ELSE deduped[i]]
    ELSE Append(deduped, notice)

RECURSIVE DedupeInto(_, _)
DedupeInto(deduped, notices) ==
    IF notices = <<>> THEN deduped
    ELSE DedupeInto(DictPut(deduped, Head(notices)), Tail(notices))

dedupe_notices(notices) == DedupeInto(<<>>, notices)

(***************************************************************************)
(* parse_datetime_guess, detect_region, the recurrence detector            *)
(***************************************************************************)
\* The candidates are tried in order: "%Y-%m-%d %H:%M", "%Y%m%d%H%M",
\* "%Y-%m-%d", "%Y%m%d"; a text none of them parses gives None.  (An
\* eight-digit YYYYMMDD text is not among the formats modelled: strptime
\* takes it by "%Y%m%d%H%M" with one-digit fields before "%Y%m%d" is tried.)
parse_datetime_guess(value) ==
    IF value.fmt = "empty" THEN None
    ELSE IF value.fmt \in {"minute-dashed", "minute-compact"} THEN Some(value.at)
    ELSE IF value.fmt = "date-dashed"
         THEN Some((value.at \div MINUTES_PER_DAY) * MINUTES_PER_DAY)
    ELSE None

\* The needles of detect_region's mapping, in the dict's order; each maps
\* to itself.
REGIONS ==
    << <<"seo", "ul">>, <<"bu", "san">>, <<"dae", "gu">>, <<"in", "cheon">>,
       <<"gwang", "ju">>, <<"dae", "jeon">>, <<"ul", "san">>, <<"se", "jong">>,
       <<"gyeong", "gi">>, <<"gang", "won">>, <<"chung", "buk">>, <<"chung", "nam">>,
       <<"jeon", "buk">>, <<"jeon", "nam">>, <<"gyeong", "buk">>, <<"gyeong", "nam">>,
       <<"je", "ju">> >>

RECURSIVE RegionFrom(_, _)
RegionFrom(needles, agency_name) ==
    IF needles = <<>> THEN UNASSIGNED
    ELSE IF Search(Lit(Head(needles)), agency_name) THEN Head(needles)
    ELSE RegionFrom(Tail(needles), agency_name)

detect_region(agency_name) == RegionFrom(REGIONS, agency_name)

\* The length of the run of digits that starts at position i of s.
RECURSIVE DigitRun(_, _)
DigitRun(s, i) ==
    IF i <= Len(s) /\ s[i] \in Digits THEN 1 + DigitRun(s, i + 1) ELSE 0

\* re.sub(r"20\d{2}", "", s)
RECURSIVE DropYears(_)
DropYears(s) ==
    IF s = <<>> THEN <<>>
    ELSE IF Len(s) >= 4 /\ s[1] = "2" /\ s[2] = "0" /\ s[3] \in Digits /\ s[4] \in Digits
         THEN DropYears(SubSeq(s, 5, Len(s)))
    ELSE <<Head(s)>> \o DropYears(Tail(s))

\* re.sub(r"\d+차|\d+회", "", s): a run of digits followed by 차 or 회
RECURSIVE DropOrdinals(_)
DropOrdinals(s) ==
    IF s = <<>> THEN <<>>
    ELSE LET n == DigitRun(s, 1)
         IN  IF n > 0 /\ n < Len(s) /\ s[n + 1] \in {"cha", "hoe"}
             THEN DropOrdinals(SubSeq(s, n + 2, Len(s)))
             ELSE <<Head(s)>> \o DropOrdinals(Tail(s))

\* re.sub(r"\s+", " ", s)
RECURSIVE CollapseSpace(_)
CollapseSpace(s) ==
    IF s = <<>> THEN <<>>
    ELSE IF Head(s) \in Whitespace
         THEN <<" ">> \o CollapseSpace(LStrip(s))
    ELSE <<Head(s)>> \o CollapseSpace(Tail(s))

Lower(s) == [i \in 1..Len(s) |-> LowerChar(s[i])]

_normalize_title(t) == Lower(Strip(CollapseSpace(DropOrdinals(DropYears(t)))))

(***************************************************************************)
(* The deduplicator and the ranker on their own: a batch of notices is     *)
(* deduplicated (as fetch_notices_std does before it returns) and leads    *)
(* are built from it.                                                      *)
(***************************************************************************)
MaxBatch == 3

MaxTopN == 3

BoundedSeq(S, n) == UNION { [1..k -> S] : k \in 0..n }

RawNotice(no, ord, t, work, agency, deadline, budget) ==
    [ bid_ntce_no |-> no, bid_ntce_ord |-> ord, notice_title |-> t,
      work_type |-> work, agency_name |-> agency, deadline_dt |-> deadline,
      budget_amt |-> budget, source_url |-> build_notice_url(no, ord) ]

\* 리더십 교육
T_LEADERSHIP == <<"ri", "deo", "sip", " ", "gyo", "yuk">>

\* 리더십 교육 (정정)
T_CORRECTED == T_LEADERSHIP \o <<" ", "(", "jeong", "jeong", ")">>

\* 2024 리더십  교육 1차
T_ROUND == <<"2", "0", "2", "4", " ">> \o <<"ri", "deo", "sip", " ", " ", "gyo", "yuk">>
               \o <<" ", "1", "cha">>

\* 조직문화 진단
T_CULTURE == <<"jo", "jik", "mun", "hwa", " ", "jin", "dan">>

\* 성과평가
T_APPRAISAL == <<"seong", "gwa", "pyeong", "ga">>

\* 도로 보수
T_ROAD == <<"do", "ro", " ", "bo", "su">>

\* 교육 시설
T_FACILITY == <<"gyo", "yuk", " ", "si", "seol">>

\* 용역, 공사
W_SERVICE == <<"yong", "yeok">>

W_WORKS == <<"gong", "sa">>

\* 서울시교육청, 경기도청, 강원도
A_SEOUL == <<"seo", "ul", "si", "gyo", "yuk", "cheong">>

A_GYEONGGI == <<"gyeong", "gi", "do", "cheong">>

A_GANGWON == <<"gang", "won", "do">>

\* 2026-01-16 18:00 as 202601161800, 2026-02-14 as 2026-02-14
D_SOON == TimeText("minute-compact", datetime(2026, 1, 16, 18, 0))

D_LATER == TimeText("date-dashed", datetime(2026, 2, 14, 0, 0))

D_OTHER == TimeText("other", 0)

NoticePool ==
    { RawNotice(<<"1">>, <<"1">>, T_LEADERSHIP, W_SERVICE, A_SEOUL, D_SOON, Some(300000000)),
      RawNotice(<<"1">>, <<"1">>, T_CORRECTED, W_SERVICE, A_SEOUL, D_SOON, Some(300000000)),
      RawNotice(<<"2">>, <<"1">>, T_CULTURE, W_SERVICE, A_GYEONGGI, D_LATER, None),
      RawNotice(<<"3">>, <<"1">>, T_ROAD, W_WORKS, A_GANGWON, EmptyText, None),
      RawNotice(<<"4">>, <<"0">>, T_ROUND, W_SERVICE, A_SEOUL, D_SOON, Some(300000000)),
      RawNotice(<<"5">>, <<"1">>, T_APPRAISAL, W_SERVICE, A_GYEONGGI, D_OTHER, Some(0)),
      RawNotice(<<"5">>, <<"2">>, T_FACILITY, W_WORKS, A_GANGWON, D_SOON, Some(1000000)),
      RawNotice(<<"6">>, <<"1">>, T_CULTURE, W_SERVICE, A_GANGWON, EmptyText, None) }

(***************************************************************************)
(* build_leads                                                             *)
(***************************************************************************)
\* match_category and _normalize_title are evaluated once for each title the
\* notices of the model carry; for any other title they are evaluated as
\* they are called.
KnownTitles ==
    { T_LEADERSHIP, T_CORRECTED, T_ROUND, T_CULTURE, T_APPRAISAL, T_ROAD, T_FACILITY,
      UNASSIGNED }

CategoryOfKnown == [t \in KnownTitles |-> match_category(t)]

NormalizedKnown == [t \in KnownTitles |-> _normalize_title(t)]

Category(t) == IF t \in KnownTitles THEN CategoryOfKnown[t] ELSE match_category(t)

NormalTitle(t) == IF t \in KnownTitles THEN NormalizedKnown[t] ELSE _normalize_title(t)

\* A dict of counts: the function from the keys seen to their counts.
CountBy(keys) ==
    [ k \in { keys[i] : i \in 1..Len(keys) } |->
        Cardinality({ i \in 1..Len(keys) : keys[i] = k }) ]

RepeatKey(n) == <<n.agency_name, NormalTitle(n.notice_title)>>

\* The keys counted at least twice.
_find_repeated_titles(notices) ==
    LET keys == [i \in 1..Len(notices) |-> RepeatKey(notices[i])]
        counts == CountBy(keys)
    IN  { key \in DOMAIN counts : counts[key] >= 2 }

IsLead(notice) == Category(notice.notice_title).category \notin NON_LEAD_CATEGORIES

\* The LeadRecord of a notice (as_of_date, contact_policy and notes are the
\* same for every lead of a run and are left out; budget_amt is the amount
\* or, for no amount or a zero amount, None for "미지정"; deadline_dt is the
\* notice's text or, for the empty text, the text "미지정").
LeadRecord(notice, repeated_keys) ==
    LET m == Category(notice.notice_title)
        deadline == parse_datetime_guess(notice.deadline_dt)
        repeat == RepeatKey(notice) \in repeated_keys
    IN  [ bid_ntce_no |-> notice.bid_ntce_no,
          bid_ntce_ord |-> notice.bid_ntce_ord,
          notice_title |-> notice.notice_title,
          work_type |-> notice.work_type,
          agency_name |-> notice.agency_name,
          region_guess |-> detect_region(notice.agency_name),
          deadline_dt |-> IF notice.deadline_dt = EmptyText
                          THEN TimeText("unassigned", 0) ELSE notice.deadline_dt,
          budget_amt |-> IF notice.budget_amt # None /\ notice.budget_amt[1] # 0
                         THEN notice.budget_amt ELSE None,
          category |-> m.category,
          match_strength |-> m.strength,
          urgency_score |-> urgency_score(deadline, notice.budget_amt, repeat,
                                          AGENCY_WEIGHT, FIT_WEIGHT),
          source_url |-> notice.source_url ]

\* The leads appended by the loop, in the order of the notices.
RECURSIVE CollectLeads(_, _)
CollectLeads(notices, repeated_keys) ==
    IF notices = <<>> THEN <<>>
    ELSE IF IsLead(Head(notices))
         THEN <<LeadRecord(Head(notices), repeated_keys)>>
                  \o CollectLeads(Tail(notices), repeated_keys)
    ELSE CollectLeads(Tail(notices), repeated_keys)

\* One step of a descending sort that is not stable: x goes before the
\* leads whose score equals its own.
RECURSIVE InsertByScoreUnstable(_, _)
InsertByScoreUnstable(sorted, x) ==
    IF sorted = <<>> THEN <<x>>
    ELSE IF Head(sorted).urgency_score > x.urgency_score
         THEN <<Head(sorted)>> \o InsertByScoreUnstable(Tail(sorted), x)
    ELSE <<x>> \o sorted

\* One step of a stable descending sort: x goes behind every lead whose
\* score is at least its own.
RECURSIVE InsertByScore(_, _)
InsertByScore(sorted, x) ==
    IF sorted = <<>> THEN <<x>>
    ELSE IF Head(sorted).urgency_score >= x.urgency_score
         THEN <<Head(sorted)>> \o InsertByScore(Tail(sorted), x)
    ELSE <<x>> \o sorted

RECURSIVE SortInto(_, _)
SortInto(sorted, leads) ==
    IF leads = <<>> THEN sorted
    ELSE SortInto(InsertByScore(sorted, Head(leads)), Tail(leads))

\* leads.sort(key=lambda x: x.urgency_score, reverse=True)
SortByScore(leads) == SortInto(<<>>, leads)

\* leads[:n]
Slice(leads, n) ==
    IF n >= 0 THEN SubSeq(leads, 1, Min(n, Len(leads)))
    ELSE SubSeq(leads, 1, Max(0, Len(leads) + n))

SummaryStats(notices, leads) ==
    [ total_notices |-> Len(notices),
      matched_notices |-> Len(leads),
      by_category |-> CountBy([i \in 1..Len(leads) |-> leads[i].category]),
      by_work_type |-> CountBy([i \in 1..Len(notices) |-> notices[i].work_type]) ]

\* build_leads with the statistics taken after the truncation.
build_leads_stats_after_slice(notices, n) ==
    LET leads == Slice(SortByScore(CollectLeads(notices, _find_repeated_titles(notices))), n)
    IN  [ leads |-> leads, stats |-> SummaryStats(notices, leads) ]

build_leads(notices, n) ==
    LET leads == SortByScore(CollectLeads(notices, _find_repeated_titles(notices)))
    IN  [ leads |-> Slice(leads, n), stats |-> SummaryStats(notices, leads) ]

LeadsInit ==
    /\ batch \in BoundedSeq(NoticePool, MaxBatch)
    /\ top_n = 0
    /\ out = None

\* notices = dedupe_notices(notices)
Dedupe ==
    /\ out = None
    /\ out' = Some([op |-> "dedupe", input |-> batch, result |-> dedupe_notices(batch)])
    /\ batch' = dedupe_notices(batch)
    /\ UNCHANGED <<top_n, classifyVars, scoreVars, windowVars, runVars>>

\* leads, stats = build_leads(notices, as_of_date, top_n)
Build ==
    \E n \in 0..MaxTopN :
        /\ top_n' = n
        /\ out' = Some([op |-> "build", input |-> batch, result |-> build_leads(batch, n)])
        /\ UNCHANGED <<batch, classifyVars, scoreVars, windowVars, runVars>>

(***************************************************************************)
(* request_json and the upstream API                                       *)
(***************************************************************************)
MAX_RETRIES == 4

NUM_OF_ROWS == 100

\* What one urlopen + read + json.loads does: an HTTPError with a status
\* code, another exception (the network, the parse), or a parsed document.
HttpError(code) == [kind |-> "HTTPError", code |-> code]

OtherError(what) == [kind |-> "Exception", what |-> what]

Parsed(data) == [kind |-> "ok", data |-> data]

\* request_json with 403 handled as a retryable status.
OutcomeForbiddenRetried(r) ==
    IF r.kind = "ok" THEN "return"
    ELSE IF r.kind = "HTTPError"
         THEN IF r.code = 401 THEN "auth"
              ELSE IF r.code \in {403, 429} \/ r.code >= 500 THEN "retry"
              ELSE "raise"
    ELSE "retry"

\* What request_json does with it.  return json.loads(payload); except
\* HTTPError: 401/403 raise the authorization RuntimeError, 429 and 5xx are
\* kept as last_error, any other status is re-raised; except Exception:
\* kept as last_error.
Outcome(r) ==
    IF r.kind = "ok" THEN "return"
    ELSE IF r.kind = "HTTPError"
         THEN IF r.code \in {401, 403} THEN "auth"
              ELSE IF r.code = 429 \/ r.code >= 500 THEN "retry"
              ELSE "raise"
    ELSE "retry"

\* RuntimeError("인증 오류(code) ..."), RuntimeError("API 호출 실패: last_error"),
\* and the HTTPError re-raised as it is.
AuthFailure(r) == [kind |-> "auth", code |-> r.code]

ExhaustedFailure(err) == [kind |-> "exhausted", cause |-> err]

\* A linear backoff in place of the exponential one.
BackoffLinear(a) == Min(2 * a, 8)

\* time.sleep(min(2**attempt, 8))
Backoff(a) == Min(2 ^ a, 8)

\* body.get("items", []), unwrapped when it is {"item": [...]}
ItemsOf(data) ==
    CASE data.items[1] = "list" -> data.items[2]
      [] data.items[1] = "wrapped" -> data.items[2]
      [] OTHER -> <<>>

\* int(body.get("totalCount") or 0)
TotalCountOf(data) == IF data.totalCount = None THEN 0 ELSE data.totalCount[1]

\* The page test with > in place of >=.
MorePagesOffByOne(page, total_count) == ~(page * NUM_OF_ROWS > total_count)

\* After a page with items: is the next page requested?
MorePages(page, total_count) == ~(page * NUM_OF_ROWS >= total_count)

(***************************************************************************)
(* run_pipeline: fetch_notices_std over the planner's windows, page by     *)
(* page, each page by request_json; then build_leads and the three         *)
(* exports.                                                                *)
(***************************************************************************)
MaxPages == 2

ApiItem(no, alt_no, ord, nm, close, amt) ==
    [ bidNtceNo |-> no, bid_ntce_no |-> alt_no,
      bidNtceOrd |-> ord, bid_ntce_ord |-> None,
      bidNtceNm |-> nm, bid_ntce_nm |-> None,
      bsnsDivNm |-> Some(W_SERVICE), workType |-> None,
      dminsttNm |-> None, ntceInsttNm |-> Some(A_SEOUL),
      bidClseDt |-> close,
      asignBdgtAmt |-> None, presmptPrce |-> amt, budgetAmt |-> None ]

\* Notice 7-1, and its amendment under the other spelling of the field.
I_SEVEN == ApiItem(Some(<<"7">>), None, Some(<<"1">>), Some(T_LEADERSHIP),
                   Some(D_SOON), Some(<<"num", 300000000>>))

I_SEVEN_AMENDED == ApiItem(None, Some(<<" ", "7">>), Some(<<"1">>), Some(T_CORRECTED),
                           Some(D_SOON), Some(<<"num", 300000000>>))

\* Two items the API gave no identifier (absent; empty) and no ordinal.
I_ANON_CULTURE == ApiItem(None, None, None, Some(T_CULTURE), None, Some(<<"dash">>))

I_ANON_APPRAISAL == ApiItem(Some(<<>>), None, None, Some(T_APPRAISAL), Some(D_LATER), None)

\* The item lists a page may carry.
PagePool ==
    { <<>>, <<I_SEVEN, I_ANON_CULTURE>>, <<I_ANON_APPRAISAL, I_SEVEN_AMENDED>> }

\* response.body.items: a bare list, {"item": list}, or absent.
ItemsFields ==
    { <<"list", p>> : p \in PagePool } \cup { <<"wrapped", p>> : p \in PagePool }
        \cup { <<"absent">> }

\* response.body.totalCount: absent, or a count of at most MaxPages pages.
TotalCounts ==
    {None} \cup { Some(NUM_OF_ROWS * k + d) : k \in 1..(MaxPages - 1), d \in {0, 1} }
        \cup { Some(NUM_OF_ROWS * MaxPages) }

StatusCodes == {401, 403, 404, 429, 500}

Responses ==
    { HttpError(c) : c \in StatusCodes }
        \cup { OtherError(w) : w \in {"URLError", "JSONDecodeError"} }
        \cup { Parsed([items |-> i, totalCount |-> t]) : i \in ItemsFields, t \in TotalCounts }

\* (start, end, mode) of a run: one daily window; two daily windows over the
\* year's end; the same range by month.
RunRanges ==
    { <<datetime(2023, 12, 31, 0, 0), datetime(2023, 12, 31, 23, 59), "daily">>,
      <<datetime(2023, 12, 31, 0, 0), datetime(2024, 1, 1, 12, 0), "daily">>,
      <<datetime(2023, 12, 31, 0, 0), datetime(2024, 1, 1, 12, 0), "monthly">> }

\* request_json is entered for page p of the window: attempt 1 is next.
CallEntered(w, p) ==
    /\ page_no' = p
    /\ attempt' = 1
    /\ last_error' = None
    /\ nReq' = 0
    /\ sleeps' = <<>>
    /\ pageLog' = Append(pageLog, [window |-> w, pageNo |-> p])
    /\ pc' = "request"

\* request_json has returned and the window's loop breaks: the call's
\* locals are gone.
CallLeft ==
    /\ attempt' = 0
    /\ last_error' = None
    /\ nReq' = 0
    /\ sleeps' = <<>>
    /\ pc' = "window"

\* for window_start, window_end in iter_windows(...): page_no = 1
EnterWindow ==
    /\ pc = "window"
    /\ HasWindow(cursor, wEnd)
    /\ windows' = Append(windows, Window(cursor, wEnd, wMode))
    /\ cursor' = NextCursor(cursor, wMode)
    /\ CallEntered(Len(windows) + 1, 1)
    /\ UNCHANGED <<wStart, wEnd, wMode, wDone, leadVars, resp, failure, files>>
    /\ UNCHANGED <<classifyVars, scoreVars>>

\* The windows are exhausted: return dedupe_notices(notices)
FinishFetch ==
    /\ pc = "window"
    /\ ~HasWindow(cursor, wEnd)
    /\ wDone' = TRUE
    /\ out' = Some([op |-> "dedupe", input |-> batch, result |-> dedupe_notices(batch)])
    /\ batch' = dedupe_notices(batch)
    /\ pc' = "build"
    /\ UNCHANGED <<wStart, wEnd, wMode, cursor, windows, top_n, page_no, attempt,
                   last_error, nReq, sleeps, resp, pageLog, failure, files>>
    /\ UNCHANGED <<classifyVars, scoreVars>>

\* One attempt of request_json gets r.
Attempted(r) ==
    /\ pc = "request"
    /\ r \in Responses
    /\ resp' = Some(IF r.kind = "ok"
                    THEN [kind |-> "ok", items |-> Len(ItemsOf(r.data)),
                          totalCount |-> TotalCountOf(r.data)]
                    ELSE r)

\* 401 or 403: the authorization RuntimeError ends the run.
AttemptAuthError ==
    \E r \in Responses :
        /\ Attempted(r)
        /\ Outcome(r) = "auth"
        /\ nReq' = nReq + 1
        /\ failure' = Some(AuthFailure(r))
        /\ pc' = "aborted"
        /\ UNCHANGED <<windowVars, leadVars, page_no, attempt, last_error, sleeps,
                       pageLog, files>>
        /\ UNCHANGED <<classifyVars, scoreVars>>

\* Another status that is neither 429 nor 5xx: the HTTPError is re-raised.
AttemptReraised ==
    \E r \in Responses :
        /\ Attempted(r)
        /\ Outcome(r) = "raise"
        /\ nReq' = nReq + 1
        /\ failure' = Some(r)
        /\ pc' = "aborted"
        /\ UNCHANGED <<windowVars, leadVars, page_no, attempt, last_error, sleeps,
                       pageLog, files>>
        /\ UNCHANGED <<classifyVars, scoreVars>>

\* 429, 5xx or another exception, before the last attempt: sleep comes next.
AttemptRetryable ==
    \E r \in Responses :
        /\ Attempted(r)
        /\ Outcome(r) = "retry"
        /\ attempt # MAX_RETRIES
        /\ nReq' = nReq + 1
        /\ last_error' = Some(r)
        /\ pc' = "sleep"
        /\ UNCHANGED <<windowVars, leadVars, page_no, attempt, sleeps, pageLog,
                       failure, files>>
        /\ UNCHANGED <<classifyVars, scoreVars>>

\* The same at the last attempt: break, raise RuntimeError(last_error).
AttemptExhausted ==
    \E r \in Responses :
        /\ Attempted(r)
        /\ Outcome(r) = "retry"
        /\ attempt = MAX_RETRIES
        /\ nReq' = nReq + 1
        /\ last_error' = Some(r)
        /\ failure' = Some(ExhaustedFailure(r))
        /\ pc' = "aborted"
        /\ UNCHANGED <<windowVars, leadVars, page_no, attempt, sleeps, pageLog, files>>
        /\ UNCHANGED <<classifyVars, scoreVars>>

\* time.sleep(min(2**attempt, 8)), then the next attempt
Sleep ==
    /\ pc = "sleep"
    /\ sleeps' = Append(sleeps, Backoff(attempt))
    /\ attempt' = attempt + 1
    /\ pc' = "request"
    /\ UNCHANGED <<windowVars, leadVars, page_no, last_error, nReq, resp, pageLog,
                   failure, files>>
    /\ UNCHANGED <<classifyVars, scoreVars>>

\* The notices of a page's items, in the items' order.
Normalized(items) == [i \in 1..Len(items) |-> NormalizeItem(items[i])]

\* The document is returned and carries no items: break
PageEmpty ==
    \E r \in Responses :
        /\ Attempted(r)
        /\ Outcome(r) = "return"
        /\ ItemsOf(r.data) = <<>>
        /\ CallLeft
        /\ UNCHANGED <<windowVars, leadVars, page_no, pageLog, failure, files>>
        /\ UNCHANGED <<classifyVars, scoreVars>>

\* The document carries items, which are normalized and appended, and the
\* total count is reached: break
PageLast ==
    \E r \in Responses :
        /\ Attempted(r)
        /\ Outcome(r) = "return"
        /\ ItemsOf(r.data) # <<>>
        /\ batch' = batch \o Normalized(ItemsOf(r.data))
        /\ ~MorePages(page_no, TotalCountOf(r.data))
        /\ CallLeft
        /\ UNCHANGED <<windowVars, top_n, out, page_no, pageLog, failure, files>>
        /\ UNCHANGED <<classifyVars, scoreVars>>

\* The same, and the total count is not reached: page_no += 1, and
\* request_json is entered for the next page.
PageMore ==
    \E r \in Responses :
        /\ Attempted(r)
        /\ Outcome(r) = "return"
        /\ ItemsOf(r.data) # <<>>
        /\ batch' = batch \o Normalized(ItemsOf(r.data))
        /\ MorePages(page_no, TotalCountOf(r.data))
        /\ CallEntered(Len(windows), page_no + 1)
        /\ UNCHANGED <<windowVars, top_n, out, failure, files>>
        /\ UNCHANGED <<classifyVars, scoreVars>>

\* leads, stats = build_leads(notices, as_of_date=datetime.now(), top_n=top_n)
BuildLeads ==
    /\ pc = "build"
    /\ \E n \in 0..MaxTopN :
           /\ top_n' = n
           /\ out' = Some([op |-> "build", input |-> batch, result |-> build_leads(batch, n)])
    /\ pc' = "export_csv"
    /\ UNCHANGED <<windowVars, batch, page_no, attempt, last_error, nReq, sleeps, resp,
                   pageLog, failure, files>>
    /\ UNCHANGED <<classifyVars, scoreVars>>

Exported(name, content, next) ==
    /\ files' = files \cup {<<name, content>>}
    /\ pc' = next
    /\ UNCHANGED <<windowVars, leadVars, page_no, attempt, last_error, nReq, sleeps, resp,
                   pageLog, failure>>
    /\ UNCHANGED <<classifyVars, scoreVars>>

\* export_csv(lead_csv, leads)
ExportCsv ==
    /\ pc = "export_csv"
    /\ Exported("lead_records.csv", out[1].result.leads, "export_stats")

\* export_json(stats_json, asdict(stats))
ExportStats ==
    /\ pc = "export_stats"
    /\ Exported("summary_stats.json", out[1].result.stats, "export_raw")

\* export_json(raw_json, {"count": len(notices), "items": [...]})
ExportRaw ==
    /\ pc = "export_raw"
    /\ Exported("raw_notices.json", [count |-> Len(batch), items |-> batch], "done")

(***************************************************************************)
(* The specifications                                                      *)
(***************************************************************************)
ClassifyIdle == title = <<>> /\ classified = None

ScoreIdle == calls = <<>>

WindowIdle ==
    /\ wStart = 0
    /\ wEnd = 0
    /\ wMode = "daily"
    /\ cursor = 0
    /\ windows = <<>>
    /\ wDone = FALSE

LeadsIdle == batch = <<>> /\ top_n = 0 /\ out = None

RunIdle ==
    /\ pc = "idle"
    /\ page_no = 0
    /\ attempt = 0
    /\ last_error = None
    /\ nReq = 0
    /\ sleeps = <<>>
    /\ resp = None
    /\ pageLog = <<>>
    /\ failure = None
    /\ files = {}

\* The clock the ranker and the run read: 2026-01-15 10:00
ClockSet == now = datetime(2026, 1, 15, 10, 0)

\* The classifier
InitClassify == ClassifyInit /\ ClockSet /\ ScoreIdle /\ WindowIdle /\ LeadsIdle /\ RunIdle

NextClassify == AppendWord \/ Classify

SpecClassify == InitClassify /\ [][NextClassify]_vars

\* The scorer
InitScore == ScoreInit /\ ClassifyIdle /\ WindowIdle /\ LeadsIdle /\ RunIdle

NextScore == ScoreFirst \/ ScoreSecond

SpecScore == InitScore /\ [][NextScore]_vars

\* The planner
InitWindows == WindowInit /\ ClockSet /\ ClassifyIdle /\ ScoreIdle /\ LeadsIdle /\ RunIdle

NextWindows == Yield \/ Exhaust

SpecWindows == InitWindows /\ [][NextWindows]_vars

\* The deduplicator and the ranker
InitLeads == LeadsInit /\ ClockSet /\ ClassifyIdle /\ ScoreIdle /\ WindowIdle /\ RunIdle

NextLeads == Dedupe \/ Build

SpecLeads == InitLeads /\ [][NextLeads]_vars

\* A run of the pipeline
RunInit ==
    /\ \E range \in RunRanges :
           /\ wStart = range[1]
           /\ wEnd = range[2]
           /\ wMode = range[3]
    /\ cursor = wStart
    /\ windows = <<>>
    /\ wDone = FALSE
    /\ LeadsIdle
    /\ pc = "window"
    /\ page_no = 0
    /\ attempt = 0
    /\ last_error = None
    /\ nReq = 0
    /\ sleeps = <<>>
    /\ resp = None
    /\ pageLog = <<>>
    /\ failure = None
    /\ files = {}

Init == RunInit /\ ClockSet /\ ClassifyIdle /\ ScoreIdle

Next ==
    \/ EnterWindow
    \/ FinishFetch
    \/ AttemptAuthError
    \/ AttemptReraised
    \/ AttemptRetryable
    \/ AttemptExhausted
    \/ Sleep
    \/ PageEmpty
    \/ PageLast
    \/ PageMore
    \/ BuildLeads
    \/ ExportCsv
    \/ ExportStats
    \/ ExportRaw

Spec == Init /\ [][Next]_vars

(***************************************************************************)
(* Properties of the planner (SpecWindows)                                 *)
(***************************************************************************)
\* C5: for start <= end and either mode, iter_windows yields finitely many
\* windows (ws, we) with ws <= we; the first starts at start; each later one
\* starts one minute after the end of the one before it; no window end
\* exceeds end; a daily window is no longer than one day and a monthly one
\* lies within one calendar month; and once the generator is exhausted at
\* least one window was yielded and the last one ends at end.
WindowsCoverRange ==
    /\ Len(windows) <= wEnd - wStart + 1
    /\ \A i \in 1..Len(windows) :
           /\ windows[i].ws <= windows[i].we
           /\ windows[i].we <= wEnd
           /\ windows[i].ws = IF i = 1 THEN wStart ELSE windows[i - 1].we + 1
           /\ wMode = "daily" => windows[i].we - windows[i].ws + 1 <= MINUTES_PER_DAY
           /\ wMode = "monthly" =>
                  /\ YearOf(windows[i].ws) = YearOf(windows[i].we)
                  /\ MonthOf(windows[i].ws) = MonthOf(windows[i].we)
    /\ wDone => windows # <<>> /\ windows[Len(windows)].we = wEnd

\* An exhausted monthly plan that crosses from December into January and
\* whose last window is clipped to an end inside the month.
WindowsCrossYearEnd ==
    /\ wDone
    /\ pc = "idle"
    /\ wMode = "monthly"
    /\ Len(windows) >= 2
    /\ YearOf(wStart) # YearOf(wEnd)
    /\ NextCursor(windows[Len(windows)].ws, wMode) - 1 > wEnd

(***************************************************************************)
(* Properties of the classifier (SpecClassify)                             *)
(***************************************************************************)
\* The number of distinct patterns of a list that hit a text.
HitCount(pats, txt) == Cardinality({ j \in 1..Len(pats) : Search(pats[j], txt) })

PositiveCategories == {CAT_OD, CAT_EVAL, CAT_HRD}

\* The case the classifier holds a title in: some exclude pattern hits and
\* the include patterns hit are no more than the exclude patterns hit.
HoldCase(txt) ==
    /\ HitCount(EXCLUDE_PATTERNS, txt) >= 1
    /\ HitCount(INCLUDE_PATTERNS, txt) <= HitCount(EXCLUDE_PATTERNS, txt)

\* C8 (as amended): match_category gives every title a category and a
\* strength in [0, 1]; for a non-blank title with an include hit it gives
\* hold 0.45 exactly when an exclude pattern hits and the include patterns
\* hit are no more than the exclude patterns hit, whatever OD or evaluation
\* term the title holds; otherwise OD 0.84 before evaluation 0.78 before HRD
\* 0.72; a positive category is given in that remaining case only; and a
\* NON-BLANK title with no include hit is not-applicable 0.0.
ClassifierDecision ==
    classified # None =>
        LET r == classified[1]
            txt == Strip(title)
            inc == HitCount(INCLUDE_PATTERNS, txt)
        IN  /\ r.category \in PositiveCategories \cup NON_LEAD_CATEGORIES
            /\ r.strength \in 0..100
            /\ (txt # <<>> /\ inc >= 1) =>
                   /\ (r.category = CAT_HOLD /\ r.strength = 45) <=> HoldCase(txt)
                   /\ r.category = CAT_HOLD <=> HoldCase(txt)
                   /\ ~HoldCase(txt) =>
                          IF SearchAny(OD_TERMS, txt)
                          THEN r.category = CAT_OD /\ r.strength = 84
                          ELSE IF SearchAny(EVAL_TERMS, txt)
                               THEN r.category = CAT_EVAL /\ r.strength = 78
                          ELSE r.category = CAT_HRD /\ r.strength = 72
            /\ r.category \in PositiveCategories =>
                   txt # <<>> /\ inc >= 1 /\ ~HoldCase(txt)
            /\ (txt # <<>> /\ inc = 0) => r.category = CAT_NOT_TARGET /\ r.strength = 0

\* A title with an OD term that hits as many include as exclude patterns
\* has been classified, and is held.
HeldDespiteOdTerm ==
    /\ classified # None
    /\ classified[1].category = CAT_HOLD
    /\ SearchAny(OD_TERMS, Strip(title))
    /\ HitCount(INCLUDE_PATTERNS, Strip(title)) = HitCount(EXCLUDE_PATTERNS, Strip(title))

\* C8 as it is stated: a title with zero include hits is always
\* not-applicable with strength 0.0.  (A blank title has zero include hits
\* and is given the category unassigned.)
ZeroIncludeHitsIsNotTarget ==
    (classified # None /\ HitCount(INCLUDE_PATTERNS, Strip(title)) = 0) =>
        classified[1].category = CAT_NOT_TARGET /\ classified[1].strength = 0

(***************************************************************************)
(* Properties of the scorer (SpecScore)                                    *)
(***************************************************************************)
\* The two calls differ as the claim has it: the default weights, the first
\* deadline no further away, the first budget no smaller and both budgets
\* positive, the repeat flag on the first call only.
NearerLargerRepeated(hi, lo) ==
    /\ hi.agency_weight = AGENCY_WEIGHT /\ hi.fit_weight = FIT_WEIGHT
    /\ lo.agency_weight = AGENCY_WEIGHT /\ lo.fit_weight = FIT_WEIGHT
    /\ hi.deadline_dt # None /\ lo.deadline_dt # None
    /\ hi.deadline_dt[1] <= lo.deadline_dt[1]
    /\ hi.budget_amt # None /\ lo.budget_amt # None
    /\ lo.budget_amt[1] > 0
    /\ hi.budget_amt[1] >= lo.budget_amt[1]
    /\ hi.repeat /\ ~lo.repeat

\* C9: every urgency_score is an integer in 0..100, and with the weights
\* 0.6 and 0.8 a call with a deadline no further away, a positive budget no
\* smaller and repeat=True scores strictly higher than the call with the
\* farther deadline, the smaller positive budget and repeat=False.
ScoreRangeAndOrder ==
    /\ \A i \in 1..Len(calls) : calls[i].score \in 0..100
    /\ Len(calls) = 2 =>
           (NearerLargerRepeated(calls[1], calls[2]) => calls[1].score > calls[2].score)

\* Two calls that differ in the repeat flag only.
ScoredRepeatOnly ==
    /\ Len(calls) = 2
    /\ NearerLargerRepeated(calls[1], calls[2])
    /\ calls[1].deadline_dt = calls[2].deadline_dt
    /\ calls[1].budget_amt = calls[2].budget_amt

(***************************************************************************)
(* Properties of the deduplicator and the ranker (SpecLeads)               *)
(***************************************************************************)
\* The places of a list whose notice carries the key of notice n.
PlacesOfKey(list, n) == { j \in 1..Len(list) : NoticeKey(list[j]) = NoticeKey(n) }

\* C1: dedupe_notices returns a list no longer than its input, in which
\* every key of the input occurs exactly once, and the record returned for
\* a key is the last input record that carries the key.
DedupeKeepsLast ==
    (out # None /\ out[1].op = "dedupe") =>
        LET input == out[1].input
            result == out[1].result
        IN  /\ Len(result) <= Len(input)
            /\ \A i \in 1..Len(input) : Cardinality(PlacesOfKey(result, input[i])) = 1
            /\ \A j \in 1..Len(result) :
                   /\ PlacesOfKey(input, result[j]) # {}
                   /\ result[j] =
                          input[CHOOSE i \in PlacesOfKey(input, result[j]) :
                                    \A k \in PlacesOfKey(input, result[j]) : k <= i]

\* A batch with two records of one key and different titles, and a record
\* of another key between or around them, has been deduplicated.
DedupedSameKeyTwoTitles ==
    /\ out # None
    /\ out[1].op = "dedupe"
    /\ pc = "idle"
    /\ Len(out[1].result) = 2
    /\ \E i, k \in 1..Len(out[1].input) :
           /\ i < k
           /\ NoticeKey(out[1].input[i]) = NoticeKey(out[1].input[k])
           /\ out[1].input[i].notice_title # out[1].input[k].notice_title

\* The places of the notices whose category is a positive match.
MatchedPlaces(notices) ==
    { i \in 1..Len(notices) :
        Category(notices[i].notice_title).category \notin
            {CAT_NOT_TARGET, CAT_HOLD, CAT_UNASSIGNED} }

\* The lead of the notice at place i.
LeadAt(notices, i) == LeadRecord(notices[i], _find_repeated_titles(notices))

\* The place of a matched notice in the descending order of the scores with
\* ties in input order: one more than the matched notices that go before it.
RankOf(notices, i) ==
    1 + Cardinality({ j \in MatchedPlaces(notices) :
            \/ LeadAt(notices, j).urgency_score > LeadAt(notices, i).urgency_score
            \/ /\ LeadAt(notices, j).urgency_score = LeadAt(notices, i).urgency_score
               /\ j < i })

\* C6: the leads build_leads returns are the first min(top_n, M) of the M
\* positive-match notices in input order sorted by urgency_score descending
\* with ties kept in input order; hence no more than top_n leads, and no
\* lead of a notice that does not match.
LeadsAreTopOfStableSort ==
    (out # None /\ out[1].op = "build") =>
        LET input == out[1].input
            leads == out[1].result.leads
            M == Cardinality(MatchedPlaces(input))
        IN  /\ Len(leads) = Min(top_n, M)
            /\ Len(leads) <= top_n
            /\ \A k \in 1..Len(leads) :
                   /\ leads[k].category \in PositiveCategories
                   /\ \E i \in MatchedPlaces(input) :
                          RankOf(input, i) = k /\ leads[k] = LeadAt(input, i)

\* Leads were built from a batch with two matching notices of equal score
\* and a third matching notice, and the list was truncated.
LeadsTiedAndTruncated ==
    /\ out # None
    /\ out[1].op = "build"
    /\ pc = "idle"
    /\ Len(out[1].result.leads) = 2
    /\ Cardinality(MatchedPlaces(out[1].input)) = 3
    /\ out[1].result.leads[1].urgency_score = out[1].result.leads[2].urgency_score
    /\ out[1].result.leads[1] # out[1].result.leads[2]

\* C7: the SummaryStats build_leads returns do not depend on top_n:
\* total_notices is the number of notices passed in and matched_notices the
\* number of positive-match notices before the truncation, for every top_n,
\* 0 included.
StatsIgnoreTopN ==
    (out # None /\ out[1].op = "build") =>
        /\ out[1].result.stats.total_notices = Len(out[1].input)
        /\ out[1].result.stats.matched_notices = Cardinality(MatchedPlaces(out[1].input))
        /\ \A n \in 0..MaxTopN : build_leads(out[1].input, n).stats = out[1].result.stats

\* Leads were built with top_n = 0 from a batch with matching and
\* non-matching notices.
StatsOfEmptyLeadList ==
    /\ out # None
    /\ out[1].op = "build"
    /\ pc = "idle"
    /\ top_n = 0
    /\ out[1].result.leads = <<>>
    /\ out[1].result.stats.matched_notices >= 2
    /\ out[1].result.stats.total_notices > out[1].result.stats.matched_notices

(***************************************************************************)
(* Properties of a run of the pipeline (Spec)                              *)
(***************************************************************************)
\* The last request got an authorization-class status.
AuthRejected == resp # None /\ resp[1].kind = "HTTPError" /\ resp[1].code \in {401, 403}

\* The last request failed in a way request_json retries: 429, a status of
\* 500 or more, or an exception of the network or the parse.
RetryableAnswer(r) ==
    \/ r.kind = "Exception"
    \/ r.kind = "HTTPError" /\ (r.code = 429 \/ r.code >= 500)

\* C2: when a request gets 401 or 403 the run aborts at once: the run has
\* failed with the authorization error, that request was the last one (no
\* retry, no sleep, no further page or window: no step follows), and no
\* export file is written, however many windows and pages were fetched
\* before it.
AuthorizationAborts ==
    /\ [](AuthRejected =>
            /\ pc = "aborted"
            /\ failure = Some([kind |-> "auth", code |-> resp[1].code])
            /\ nReq = attempt
            /\ Len(sleeps) = attempt - 1
            /\ files = {})
    /\ [][~AuthRejected]_vars

\* A 403 on the second attempt of a second page, in the second window, after
\* notices were fetched.
AuthRejectedLate ==
    /\ AuthRejected
    /\ resp[1].code = 403
    /\ attempt = 2
    /\ page_no = 2
    /\ Len(windows) = 2
    /\ batch # <<>>

\* The sleeps of a request_json call: 2, 4, 8.
BACKOFF_SCHEDULE == <<2, 4, 8>>

\* C3: within a request_json call the attempts are 1..MAX_RETRIES; an
\* attempt that fails with 429, a status >= 500 or a network/parse
\* exception is followed by a sleep of min(2^attempt, 8) and the next
\* attempt, except that the MAX_RETRIES-th failure is followed by no sleep
\* and the call fails with the last error wrapped; a successful attempt
\* ends the call with no further request or sleep; so a call issues at most
\* 4 requests and 3 sleeps.
RetryDiscipline ==
    /\ [](/\ attempt \in 0..MAX_RETRIES
          /\ nReq <= 4
          /\ Len(sleeps) <= 3
          /\ \A i \in 1..Len(sleeps) : sleeps[i] = BACKOFF_SCHEDULE[i]
          /\ pc = "request" => nReq = attempt - 1 /\ Len(sleeps) = attempt - 1
          /\ pc = "sleep" =>
                 /\ attempt < MAX_RETRIES
                 /\ nReq = attempt
                 /\ Len(sleeps) = attempt - 1
                 /\ RetryableAnswer(resp[1])
                 /\ last_error = resp
          /\ (failure # None /\ failure[1].kind = "exhausted") =>
                 /\ nReq = MAX_RETRIES
                 /\ sleeps = BACKOFF_SCHEDULE
                 /\ RetryableAnswer(resp[1])
                 /\ failure[1].cause = resp[1])
    /\ [][pc = "request" =>
            /\ nReq' = nReq + 1 \/ (nReq' = 0 /\ resp'[1].kind = "ok")
            /\ RetryableAnswer(resp'[1]) =>
                   IF attempt < MAX_RETRIES
                   THEN pc' = "sleep" /\ attempt' = attempt /\ sleeps' = sleeps
                   ELSE pc' = "aborted" /\ sleeps' = sleeps /\ failure' # None
            /\ resp'[1].kind = "ok" =>
                   /\ pc' \in {"window", "request"}
                   /\ attempt' \in {0, 1}
                   /\ nReq' = 0
                   /\ sleeps' = <<>>
                   /\ Len(pageLog') = IF pc' = "request" THEN Len(pageLog) + 1
                                      ELSE Len(pageLog)]_vars
    /\ [][pc = "sleep" =>
            /\ pc' = "request"
            /\ attempt' = attempt + 1
            /\ sleeps' = Append(sleeps, BACKOFF_SCHEDULE[attempt])
            /\ nReq' = nReq]_vars

\* A call that failed four times.
RetriesExhausted ==
    /\ failure # None
    /\ failure[1].kind = "exhausted"
    /\ sleeps = BACKOFF_SCHEDULE
    /\ nReq = 4
    /\ Len(pageLog) >= 2

\* The last entry of the log of calls.
LastCall == pageLog[Len(pageLog)]

\* C4: pagination runs window by window: the first page requested for a
\* window is page 1, the pages of a window are requested in the order 1, 2,
\* 3, ..., and after page p returns, page p + 1 of the same window is
\* requested if and only if page p carried items and p * 100 is less than
\* the totalCount it reported; otherwise the fetcher goes on to the next
\* window of the planner, or finishes when there is none.
PaginationPerWindow ==
    /\ [](/\ \A k \in 1..Len(pageLog) :
                 IF k = 1 THEN pageLog[k] = [window |-> 1, pageNo |-> 1]
                 ELSE \/ /\ pageLog[k].window = pageLog[k - 1].window
                         /\ pageLog[k].pageNo = pageLog[k - 1].pageNo + 1
                      \/ /\ pageLog[k].window = pageLog[k - 1].window + 1
                         /\ pageLog[k].pageNo = 1
          /\ pageLog # <<>> => LastCall.window = Len(windows)
          /\ pc \in {"request", "sleep"} => LastCall.pageNo = page_no
          /\ \A i \in 1..Len(windows) :
                 /\ windows[i].ws = IF i = 1 THEN wStart ELSE windows[i - 1].we + 1
                 /\ windows[i].we <= wEnd)
    /\ [][(pc = "request" /\ resp'[1].kind = "ok") =>
            IF resp'[1].items > 0 /\ page_no * 100 < resp'[1].totalCount
            THEN /\ pc' = "request"
                 /\ windows' = windows
                 /\ pageLog' = Append(pageLog, [window |-> Len(windows),
                                                pageNo |-> page_no + 1])
            ELSE /\ pc' = "window"
                 /\ windows' = windows
                 /\ pageLog' = pageLog]_vars
    /\ [][pc = "window" =>
            IF windows = <<>> \/ windows[Len(windows)].we < wEnd
            THEN /\ pc' = "request"
                 /\ Len(windows') = Len(windows) + 1
                 /\ pageLog' = Append(pageLog, [window |-> Len(windows) + 1, pageNo |-> 1])
            ELSE /\ pc' = "build"
                 /\ windows' = windows
                 /\ pageLog' = pageLog]_vars

\* Two pages were requested for the first window, the second because the
\* first reported one notice more than a page holds, and the second window
\* is at its first page.
SecondWindowAfterTwoPages ==
    /\ Len(pageLog) = 3
    /\ pageLog[2] = [window |-> 1, pageNo |-> 2]
    /\ pageLog[3] = [window |-> 2, pageNo |-> 1]
    /\ pc = "request"
    /\ resp # None
    /\ resp[1].kind = "ok"
    /\ resp[1].items > 0
    /\ resp[1].totalCount = 2 * 100

\* A notice that carries the sentinel for an identifier: the item it was
\* made from gave none.
LacksIdentifier(notice) == notice.bid_ntce_no = UNASSIGNED

\* C10 as it is stated: two fetched items that both lack an identifier are
\* kept as two separate notices in what fetch_notices_std returns (here for
\* two items that differ in their titles).
AbsentIdentifierNeverMerged ==
    (out # None /\ out[1].op = "dedupe") =>
        \A i, k \in 1..Len(out[1].input) :
            ( /\ i < k
              /\ LacksIdentifier(out[1].input[i])
              /\ LacksIdentifier(out[1].input[k])
              /\ out[1].input[i].notice_title # out[1].input[k].notice_title )
            => \E a, b \in 1..Len(out[1].result) :
                   /\ a # b
                   /\ out[1].result[a] = out[1].input[i]
                   /\ out[1].result[b] = out[1].input[k]

====
